---- MODULE Spec2Model ----
(***************************************************************************)
(* Model of the wundergraph rust client: the response decoding layer       *)
(* (serde's untagged Response<T> enum, decode_bytes), the unary calls      *)
(* (query, mutate) and the streaming calls (subscribe, live_query).        *)
(***************************************************************************)
EXTENDS Integers, Sequences, FiniteSets, TLC

(***************************************************************************)
(* Bounds of the model.                                                    *)
(***************************************************************************)
MaxErrors == 2
MaxArray == 2
MaxChunks == 3
MaxCalls == 2

(***************************************************************************)
(* JSON documents, as serde buffers them before trying the variants of an  *)
(* untagged enum.  An object is a record of the keys the structs of the    *)
(* client look at; a key that is not in the object holds Absent.  `other`  *)
(* stands for any key no struct of the client names.                       *)
(***************************************************************************)
Absent == [k |-> "absent"]
JNull == [k |-> "null"]
JNum(n) == [k |-> "num", n |-> n]
JStr(s) == [k |-> "str", s |-> s]
JArr(items) == [k |-> "arr", items |-> items]
JObj(data, code, errors, message, other) ==
    [k |-> "obj", data |-> data, code |-> code, errors |-> errors,
     message |-> message, other |-> other]

\* A body that is not JSON at all.
NotJson == [k |-> "garbage"]

\* The sequences over S of length n, and of length at most n, as tuples.
RECURSIVE SeqsOfLen(_, _)
SeqsOfLen(S, n) ==
    IF n = 0 THEN {<<>>}
    ELSE {Append(s, x) : s \in SeqsOfLen(S, n - 1), x \in S}
SeqsUpTo(S, n) == UNION {SeqsOfLen(S, m) : m \in 0..n}

Scalars == {JNull, JNum(1), JStr("BAD")}
DataVals == {JNull, JNum(1), JStr("a")}
CodeVals == {JNull, JStr("BAD"), JNum(7)}
OtherVals == {Absent, JNum(1)}

\* Entries of an `errors` list: {"message": "nope"}, {"message": "oops"},
\* {} and the array ["nope"].
ErrEntries ==
    {JObj(Absent, Absent, Absent, JStr("nope"), Absent),
     JObj(Absent, Absent, Absent, JStr("oops"), Absent),
     JObj(Absent, Absent, Absent, Absent, Absent),
     JArr(<<JStr("nope")>>)}
ErrsVals == {JArr(s) : s \in SeqsUpTo(ErrEntries, MaxErrors)} \cup {JStr("x")}

Objects ==
    {JObj(d, c, e, Absent, o) :
        d \in DataVals \cup {Absent}, c \in CodeVals \cup {Absent},
        e \in ErrsVals \cup {Absent}, o \in OtherVals}

ArrayElems == Scalars \cup {JArr(<<>>), JArr(<<JArr(<<JStr("nope")>>)>>)}
Arrays == {JArr(s) : s \in SeqsUpTo(ArrayElems, MaxArray)}

Bodies == {NotJson} \cup Scalars \cup Objects \cup Arrays

(***************************************************************************)
(* Rust values.                                                            *)
(***************************************************************************)
RI32(n) == [t |-> "i32", n |-> n]
RString(s) == [t |-> "String", s |-> s]
RNone == [t |-> "None"]
RSome(v) == [t |-> "Some", v |-> v]
RStream == [t |-> "Stream"]

\* The result types R a caller picks.
Types == {"i32", "String", "Option<i32>"}

\* Outcome of a Deserialize impl.
DeOk(v) == [ok |-> TRUE, v |-> v]
DeFail == [ok |-> FALSE]

DeI32(j) == IF j.k = "num" THEN DeOk(RI32(j.n)) ELSE DeFail
DeString(j) == IF j.k = "str" THEN DeOk(RString(j.s)) ELSE DeFail
DeOptionI32(j) ==
    IF j.k = "null" THEN DeOk(RNone)
    ELSE IF DeI32(j).ok THEN DeOk(RSome(DeI32(j).v)) ELSE DeFail
DeOptionString(j) ==
    IF j.k = "null" THEN DeOk(RNone)
    ELSE IF DeString(j).ok THEN DeOk(RSome(DeString(j).v)) ELSE DeFail

\* T::deserialize on the buffered content.
DeT(T, j) ==
    CASE T = "i32" -> DeI32(j)
      [] T = "String" -> DeString(j)
      [] T = "Option<i32>" -> DeOptionI32(j)

\* What the derived visitor does for a field the map does not hold: an
\* Option field becomes None, any other type is an error.
MissingField(T) == IF T = "Option<i32>" THEN DeOk(RNone) ELSE DeFail

(***************************************************************************)
(* The derived Deserialize impls, run on the buffered content.  A struct   *)
(* is read from a map (by key, unknown keys skipped) or from a sequence    *)
(* (by position, every element consumed).                                  *)
(***************************************************************************)

\* struct GraphQLError { message: String }
GraphQLError(j) ==
    CASE j.k = "arr" ->
           IF Len(j.items) = 1 /\ DeString(j.items[1]).ok
           THEN DeOk([message |-> j.items[1].s]) ELSE DeFail
      [] j.k = "obj" ->
           IF j.message # Absent /\ DeString(j.message).ok
           THEN DeOk([message |-> j.message.s]) ELSE DeFail
      [] OTHER -> DeFail

\* The elements of a JSON array, each read as a GraphQLError, in order.
RECURSIVE GraphQLErrorItems(_)
GraphQLErrorItems(items) ==
    IF Len(items) = 0 THEN <<>>
    ELSE <<GraphQLError(Head(items)).v>> \o GraphQLErrorItems(Tail(items))

\* Vec<GraphQLError>
VecGraphQLError(j) ==
    IF j.k = "arr" /\ \A i \in 1..Len(j.items) : GraphQLError(j.items[i]).ok
    THEN DeOk(GraphQLErrorItems(j.items))
    ELSE DeFail

\* struct GraphQLErrors { code: Option<String>, errors: Vec<GraphQLError> }
GraphQLErrors(j) ==
    CASE j.k = "arr" ->
           IF /\ Len(j.items) = 2
              /\ DeOptionString(j.items[1]).ok
              /\ VecGraphQLError(j.items[2]).ok
           THEN DeOk([code |-> DeOptionString(j.items[1]).v,
                      errors |-> VecGraphQLError(j.items[2]).v])
           ELSE DeFail
      [] j.k = "obj" ->
           LET code == IF j.code = Absent THEN DeOk(RNone)
                       ELSE DeOptionString(j.code)
           IN  IF code.ok /\ j.errors # Absent /\ VecGraphQLError(j.errors).ok
               THEN DeOk([code |-> code.v, errors |-> VecGraphQLError(j.errors).v])
               ELSE DeFail
      [] OTHER -> DeFail

\* struct ResponseData<T> { data: T }
ResponseData(T, j) ==
    CASE j.k = "arr" ->
           IF Len(j.items) = 1 /\ DeT(T, j.items[1]).ok
           THEN DeOk([data |-> DeT(T, j.items[1]).v]) ELSE DeFail
      [] j.k = "obj" ->
           LET data == IF j.data = Absent THEN MissingField(T) ELSE DeT(T, j.data)
           IN  IF data.ok THEN DeOk([data |-> data.v]) ELSE DeFail
      [] OTHER -> DeFail

\* #[serde(untagged)] enum Response<T> { Data(ResponseData<T>), Error(GraphQLErrors) }
\* under serde_json::from_slice: the first variant that deserializes wins.
Response(T, j) ==
    IF j.k = "garbage" THEN [variant |-> "Malformed"]
    ELSE IF ResponseData(T, j).ok
         THEN [variant |-> "Data", data |-> ResponseData(T, j).v.data]
    ELSE IF GraphQLErrors(j).ok
         THEN [variant |-> "Error", error |-> GraphQLErrors(j).v]
    ELSE [variant |-> "Malformed"]

(***************************************************************************)
(* enum Error and Result<T>.                                               *)
(***************************************************************************)
Ok(v) == [kind |-> "Ok", value |-> v]
SerializationError == [kind |-> "SerializationError"]
InvalidHTTPStatusCodeError(status) ==
    [kind |-> "InvalidHTTPStatusCodeError", status |-> status]
ResponseError(status_code, code, errors) ==
    [kind |-> "ResponseError", status_code |-> status_code, code |-> code,
     errors |-> errors]
Other(msg) == [kind |-> "Other", msg |-> msg]

\* StatusCode::is_success
is_success(status) == 200 <= status /\ status <= 299

\* decode_bytes that looks at the status before the body.
decode_bytes_StatusFirst(T, status_code, data) ==
    IF ~is_success(status_code) THEN InvalidHTTPStatusCodeError(status_code)
    ELSE LET response == Response(T, data)
         IN  CASE response.variant = "Data" -> Ok(response.data)
               [] response.variant = "Error" ->
                    ResponseError(status_code, response.error.code,
                                  response.error.errors)
               [] OTHER -> SerializationError

\* decode_bytes without the fallback on the status.
decode_bytes_NoFallback(T, status_code, data) ==
    LET response == Response(T, data)
    IN  CASE response.variant = "Data" -> Ok(response.data)
          [] response.variant = "Error" ->
               ResponseError(status_code, response.error.code,
                             response.error.errors)
          [] OTHER -> SerializationError

\* decode_bytes with the test of the status inverted.
decode_bytes_Inverted(T, status_code, data) ==
    LET response == Response(T, data)
    IN  CASE response.variant = "Data" -> Ok(response.data)
          [] response.variant = "Error" ->
               ResponseError(status_code, response.error.code,
                             response.error.errors)
          [] OTHER ->
               IF is_success(status_code)
               THEN InvalidHTTPStatusCodeError(status_code)
               ELSE SerializationError

decode_bytes(T, status_code, data) ==
    LET response == Response(T, data)
    IN  CASE response.variant = "Data" -> Ok(response.data)
          [] response.variant = "Error" ->
               ResponseError(status_code, response.error.code,
                             response.error.errors)
          [] OTHER ->
               IF ~is_success(status_code)
               THEN InvalidHTTPStatusCodeError(status_code)
               ELSE SerializationError

(***************************************************************************)
(* The calls.                                                              *)
(***************************************************************************)
Ops == {"query", "mutate", "subscribe", "live_query"}
Unary == {"query", "mutate"}
Streaming == {"subscribe", "live_query"}
Statuses == {200, 299, 300, 500}

\* The chunks a streaming response delivers in the model.
StreamBodies ==
    {NotJson,
     JObj(JNum(1), Absent, Absent, Absent, Absent),
     JObj(Absent, JStr("BAD"),
          JArr(<<JObj(Absent, Absent, Absent, JStr("nope"), Absent),
                 JObj(Absent, Absent, Absent, JStr("oops"), Absent)>>),
          Absent, Absent),
     JObj(Absent, Absent, JArr(<<>>), Absent, Absent),
     JArr(<<JNum(1)>>)}

\* An item of resp.bytes_stream(): a chunk of bytes or a read failure.
ChunkOk(data) == [ok |-> TRUE, data |-> data]
ChunkErr == [ok |-> FALSE]

NoResult == [kind |-> "pending"]
NoRequest == [method |-> "none", variables |-> FALSE, live |-> FALSE, error |-> FALSE]
NoBody == [k |-> "unread"]
NoPrev == [kind |-> "none", variant |-> "none"]

VARIABLES
    pc,         \* where the call is: idle, send, body, stream, done
    op,         \* the method called
    T,          \* the result type the caller chose
    urlOk,      \* whether url.join(subpath) succeeds
    inputOk,    \* whether the input serializes
    req,        \* the request built, and the error its builder holds
    sent,       \* requests handed to the transport during this call
    status,     \* the status of the response
    body,       \* the body read by decode_response
    chunks,     \* the items read from resp.bytes_stream()
    items,      \* the items the returned stream has yielded
    ended,      \* the returned stream: open, eof (the response ended) or
                \* closed (the generator returned from inside the loop)
    result,     \* what the call returned
    kind,       \* history: the kind of failure (of the five of the error
                \* taxonomy) behind result, "none" when there is none
    calls,      \* calls made on the client
    prev        \* history: an error an earlier call surfaced, its kind and
                \* the Error variant it came as

vars == <<pc, op, T, urlOk, inputOk, req, sent, status, body, chunks, items,
          ended, result, kind, calls, prev>>

Init ==
    /\ pc = "idle"
    /\ op = "none"
    /\ T = "none"
    /\ urlOk = TRUE
    /\ inputOk = TRUE
    /\ req = NoRequest
    /\ sent = 0
    /\ status = 0
    /\ body = NoBody
    /\ chunks = <<>>
    /\ items = <<>>
    /\ ended = "open"
    /\ result = NoResult
    /\ kind = "none"
    /\ calls = 0
    /\ prev = NoPrev

\* The request each method builds once the url is joined.  query and
\* streaming_request serialize the input themselves and return on failure;
\* mutate hands the input to RequestBuilder::json, which keeps the failure
\* in the builder.
build_request(o, serializable) ==
    CASE o = "query" ->
           [method |-> "GET", variables |-> TRUE, live |-> FALSE, error |-> FALSE]
      [] o = "mutate" ->
           [method |-> "POST", variables |-> FALSE, live |-> FALSE,
            error |-> ~serializable]
      [] o = "subscribe" ->
           [method |-> "GET", variables |-> TRUE, live |-> FALSE, error |-> FALSE]
      [] o = "live_query" ->
           [method |-> "GET", variables |-> TRUE, live |-> TRUE, error |-> FALSE]

\* query, mutate, subscribe, live_query up to req.send().
Call(o, t, u, serializable) ==
    /\ pc = "idle"
    /\ calls < MaxCalls
    /\ calls' = calls + 1
    /\ op' = o
    /\ T' = t
    /\ urlOk' = u
    /\ inputOk' = serializable
    /\ sent' = 0
    /\ IF ~u
       THEN /\ result' = Other("failed to parse url subpath")
            /\ kind' = "transport"
            /\ pc' = "done"
            /\ req' = NoRequest
       ELSE IF o # "mutate" /\ ~serializable
       THEN /\ result' = SerializationError
            /\ kind' = "serialization"
            /\ pc' = "done"
            /\ req' = NoRequest
       ELSE /\ req' = build_request(o, serializable)
            /\ pc' = "send"
            /\ UNCHANGED <<result, kind>>
    /\ UNCHANGED <<status, body, chunks, items, ended, prev>>

\* req.send() on a builder that holds an error: nothing is sent.
SendBuilderError ==
    /\ pc = "send"
    /\ req.error
    /\ result' = Other("failed to send request")
    /\ kind' = "serialization"
    /\ pc' = "done"
    /\ UNCHANGED <<op, T, urlOk, inputOk, req, sent, status, body, chunks,
                   items, ended, calls, prev>>

\* req.send() fails in the transport.
SendFails ==
    /\ pc = "send"
    /\ ~req.error
    /\ sent' = sent + 1
    /\ result' = Other("failed to send request")
    /\ kind' = "transport"
    /\ pc' = "done"
    /\ UNCHANGED <<op, T, urlOk, inputOk, req, status, body, chunks, items,
                   ended, calls, prev>>

\* streaming_request that returns the stream whatever the status.
streaming_response_NoCheck(s) == [ret |-> Ok(RStream), stream |-> TRUE]

\* streaming_request once the response has arrived.
streaming_response(s) ==
    IF ~is_success(s)
    THEN [ret |-> InvalidHTTPStatusCodeError(s), stream |-> FALSE]
    ELSE [ret |-> Ok(RStream), stream |-> TRUE]

\* req.send() returns a response.
SendResponds(s) ==
    /\ pc = "send"
    /\ ~req.error
    /\ sent' = sent + 1
    /\ status' = s
    /\ IF op \in Unary
       THEN /\ pc' = "body"
            /\ UNCHANGED <<result, kind>>
       ELSE /\ result' = streaming_response(s).ret
            /\ kind' = IF streaming_response(s).stream THEN "none" ELSE "http_status"
            /\ pc' = IF streaming_response(s).stream THEN "stream" ELSE "done"
    /\ UNCHANGED <<op, T, urlOk, inputOk, req, body, chunks, items, ended,
                   calls, prev>>

\* The kind of failure a body stands for, by the decode result and the status.
DecodeKind(t, s, data) ==
    CASE Response(t, data).variant = "Data" -> "none"
      [] Response(t, data).variant = "Error" -> "structured"
      [] OTHER -> IF is_success(s) THEN "parse" ELSE "http_status"

\* decode_response: resp.bytes() fails.
ReadBodyFails ==
    /\ pc = "body"
    /\ result' = Other("error reading response")
    /\ kind' = "transport"
    /\ pc' = "done"
    /\ UNCHANGED <<op, T, urlOk, inputOk, req, sent, status, body, chunks,
                   items, ended, calls, prev>>

\* decode_response: the body arrives and is decoded.
ReadBody(data) ==
    /\ pc = "body"
    /\ body' = data
    /\ result' = decode_bytes(T, status, data)
    /\ kind' = DecodeKind(T, status, data)
    /\ pc' = "done"
    /\ UNCHANGED <<op, T, urlOk, inputOk, req, sent, status, chunks, items,
                   ended, calls, prev>>

(***************************************************************************)
(* The stream streaming_request returns: one turn of                       *)
(*   while let Some(item) = resp_stream.next().await {                     *)
(*       let data = item.map_err(..)?;  yield decode_bytes(..) }           *)
(* `yield` is the item handed to the consumer, `done` whether the          *)
(* generator returned.                                                     *)
(***************************************************************************)

\* A generator that returns after any Err item.
stream_item_StopOnErr(t, s, item) ==
    IF ~item.ok
    THEN [yield |-> Other("failed to read response"), done |-> TRUE]
    ELSE [yield |-> decode_bytes(t, s, item.data),
          done |-> decode_bytes(t, s, item.data).kind # "Ok"]

\* A generator that goes on after a read failure.
stream_item_GoOn(t, s, item) ==
    IF ~item.ok
    THEN [yield |-> Other("failed to read response"), done |-> FALSE]
    ELSE [yield |-> decode_bytes(t, s, item.data), done |-> FALSE]

stream_item(t, s, item) ==
    IF ~item.ok
    THEN [yield |-> Other("failed to read response"), done |-> TRUE]
    ELSE [yield |-> decode_bytes(t, s, item.data), done |-> FALSE]

\* The consumer polls the stream and resp_stream.next() gives an item.
StreamNext(item) ==
    /\ pc = "stream"
    /\ ended = "open"
    /\ Len(chunks) < MaxChunks
    /\ chunks' = Append(chunks, item)
    /\ items' = Append(items, stream_item(T, status, item).yield)
    /\ ended' = IF stream_item(T, status, item).done THEN "closed" ELSE "open"
    /\ UNCHANGED <<pc, op, T, urlOk, inputOk, req, sent, status, body, result,
                   kind, calls, prev>>

\* The consumer polls the stream and resp_stream.next() gives None.
StreamEof ==
    /\ pc = "stream"
    /\ ended = "open"
    /\ ended' = "eof"
    /\ UNCHANGED <<pc, op, T, urlOk, inputOk, req, sent, status, body, chunks,
                   items, result, kind, calls, prev>>

\* The kind of failure behind the i-th item of the stream.
ItemKind(i) ==
    IF chunks[i].ok THEN DecodeKind(T, status, chunks[i].data) ELSE "transport"

\* The errors this call has surfaced to its caller: kind and Error variant.
ErrorKinds == {"transport", "http_status", "structured", "parse", "serialization"}
ErrorVariants ==
    {"SerializationError", "InvalidHTTPStatusCodeError", "ResponseError", "Other"}
Surfaced ==
    {p \in [kind : ErrorKinds, variant : ErrorVariants] :
        \/ result.kind = p.variant /\ kind = p.kind
        \/ \E i \in 1..Len(items) :
              /\ i <= Len(chunks)
              /\ items[i].kind = p.variant
              /\ ItemKind(i) = p.kind}

\* The caller is done with the call (or drops the stream) and the client,
\* which keeps no state of a call, is ready for the next one.
Finish(p) ==
    /\ pc \in {"done", "stream"}
    /\ calls < MaxCalls
    /\ prev' = p
    /\ pc' = "idle"
    /\ op' = "none"
    /\ T' = "none"
    /\ urlOk' = TRUE
    /\ inputOk' = TRUE
    /\ req' = NoRequest
    /\ sent' = 0
    /\ status' = 0
    /\ body' = NoBody
    /\ chunks' = <<>>
    /\ items' = <<>>
    /\ ended' = "open"
    /\ result' = NoResult
    /\ kind' = "none"
    /\ UNCHANGED calls

Next ==
    \/ \E o \in Ops, t \in Types, u \in BOOLEAN, serializable \in BOOLEAN :
          Call(o, t, u, serializable)
    \/ SendBuilderError
    \/ SendFails
    \/ \E s \in Statuses : SendResponds(s)
    \/ ReadBodyFails
    \/ \E data \in Bodies : ReadBody(data)
    \/ \E data \in StreamBodies : StreamNext(ChunkOk(data))
    \/ StreamNext(ChunkErr)
    \/ StreamEof

\* One call on a fresh client.
Spec == Init /\ [][Next]_vars

NextCalls ==
    \/ Next
    \/ Finish(prev)
    \/ \E p \in Surfaced : Finish(p)

\* Calls one after the other on the same client.
SpecCalls == Init /\ [][NextCalls]_vars

(***************************************************************************)
(* The shapes of a body, read off the JSON alone.                          *)
(***************************************************************************)

\* An object whose `data` key decodes as T.
SuccessShaped(t, j) == j.k = "obj" /\ j.data # Absent /\ DeT(t, j.data).ok

\* {"message": <string>}
MessageShaped(j) == j.k = "obj" /\ j.message # Absent /\ j.message.k = "str"

\* An object with a list `errors` of messages and a `code` that is absent,
\* null or a string.
HasErrorList(j) ==
    /\ j.k = "obj"
    /\ j.errors # Absent
    /\ j.errors.k = "arr"
    /\ \A i \in 1..Len(j.errors.items) : MessageShaped(j.errors.items[i])
    /\ j.code # Absent => j.code.k \in {"null", "str"}

\* The error envelope: no `data` key.
ErrorShaped(j) == HasErrorList(j) /\ j.data = Absent

\* The code and the messages of an error envelope, as the caller should see them.
CodeOf(j) ==
    IF j.code # Absent /\ j.code.k = "str" THEN RSome(RString(j.code.s)) ELSE RNone
RECURSIVE MessageList(_)
MessageList(entries) ==
    IF Len(entries) = 0 THEN <<>>
    ELSE <<[message |-> Head(entries).message.s]>> \o MessageList(Tail(entries))
MessagesOf(j) == MessageList(j.errors.items)

\* The bodies decode_bytes has been given in this call, with its answers.
Decoded ==
    (IF pc = "done" /\ body # NoBody THEN {[data |-> body, out |-> result]} ELSE {})
    \cup
    {[data |-> chunks[i].data, out |-> items[i]] :
        i \in {n \in 1..Len(chunks) : n <= Len(items) /\ chunks[n].ok}}

\* C1: whatever the status, a body that is an object whose `data` key decodes
\* as T makes decode_bytes return Ok with exactly that decoded payload.
C1_SuccessBodyIsOk ==
    \A d \in Decoded :
        SuccessShaped(T, d.data) => d.out = Ok(DeT(T, d.data.data).v)

\* A response with a failure status and a success-shaped body was returned as Ok.
C1_Witness ==
    /\ pc = "done"
    /\ op \in Unary
    /\ ~is_success(status)
    /\ SuccessShaped(T, body)
    /\ result.kind = "Ok"

\* C2: whatever the status and the result type, an error-shaped body (optional
\* code, a list of messages, no data key) makes decode_bytes return the
\* ResponseError with the transport status, the body's code and the body's
\* messages in order.
C2_ErrorBodyIsResponseError ==
    \A d \in Decoded :
        ErrorShaped(d.data) =>
            d.out = ResponseError(status, CodeOf(d.data), MessagesOf(d.data))

\* C3: a body that decodes as neither variant gives the HTTP-status error with
\* the transport status exactly when the status is not 2xx and the parse error
\* exactly when it is 2xx, and never a success or a structured error.
C3_MalformedByStatus ==
    \A d \in Decoded :
        Response(T, d.data).variant = "Malformed" =>
            /\ (d.out = InvalidHTTPStatusCodeError(status)) <=> ~is_success(status)
            /\ (d.out = SerializationError) <=> is_success(status)
            /\ d.out.kind \notin {"Ok", "ResponseError"}

\* A body that is not JSON came with a failure status and gave the HTTP-status error.
C3_Witness ==
    /\ pc = "done"
    /\ body = NotJson
    /\ status = 500
    /\ result = InvalidHTTPStatusCodeError(500)

\* C4: a body that matches both shapes (a `data` key decodable as T and a valid
\* `errors` list) is not returned as success, and a body that matches neither
\* shape is returned neither as success nor as a structured error.
C4_OneVariantOnly ==
    \A d \in Decoded :
        /\ (d.data # NotJson /\ SuccessShaped(T, d.data) /\ HasErrorList(d.data))
               => d.out.kind # "Ok"
        /\ (d.data = NotJson \/ (~SuccessShaped(T, d.data) /\ ~ErrorShaped(d.data)))
               => d.out.kind \notin {"Ok", "ResponseError"}

\* C5: when no read of a chunk has failed the stream has yielded one item per
\* chunk, in arrival order, each the decode_bytes outcome of its chunk, and no
\* item has made the generator return.
C5_OneItemPerChunk ==
    (pc = "stream" /\ \A i \in 1..Len(chunks) : chunks[i].ok) =>
        /\ Len(items) = Len(chunks)
        /\ \A i \in 1..Len(chunks) :
              items[i] = decode_bytes(T, status, chunks[i].data)
        /\ ended # "closed"

\* Three chunks, the second malformed: three items, the first and the third Ok.
C5_Witness ==
    /\ pc = "stream"
    /\ Len(chunks) = 3
    /\ \A i \in 1..3 : chunks[i].ok
    /\ chunks[2].data = NotJson
    /\ Len(items) = 3
    /\ items[1].kind = "Ok"
    /\ items[2].kind = "SerializationError"
    /\ items[3].kind = "Ok"

\* C6: in subscribe and live_query a response with a status that is not 2xx
\* makes the call return the HTTP-status error with that status; there is no
\* stream and nothing of the body is read or decoded.
C6_BadStatusNoStream ==
    (op \in Streaming /\ status # 0 /\ ~is_success(status)) =>
        /\ pc = "done"
        /\ result = InvalidHTTPStatusCodeError(status)
        /\ chunks = <<>>
        /\ items = <<>>
        /\ body = NoBody
        /\ ended = "open"

\* subscribe got a 500.
C6_Witness ==
    /\ op = "subscribe"
    /\ sent = 1
    /\ status = 500
    /\ result = InvalidHTTPStatusCodeError(500)

\* C7: a failed read of a chunk yields one Err item for the failure and the
\* stream ends there: the failed chunk is the last one read, its item the last
\* one yielded, and the items before it are the outcomes of their chunks.
C7_ReadFailureEndsStream ==
    \A i \in 1..Len(chunks) :
        ~chunks[i].ok =>
            /\ i = Len(chunks)
            /\ Len(items) = i
            /\ items[i] = Other("failed to read response")
            /\ ended = "closed"
            /\ \A j \in 1..(i - 1) :
                  chunks[j].ok /\ items[j] = decode_bytes(T, status, chunks[j].data)

\* The second read failed after one chunk that decoded.
C7_Witness ==
    /\ pc = "stream"
    /\ Len(chunks) = 2
    /\ chunks[1].ok
    /\ ~chunks[2].ok
    /\ Len(items) = 2
    /\ items[1].kind = "Ok"
    /\ items[2].kind = "Other"
    /\ ended = "closed"

\* C8: no two of the five kinds of failure reach the caller as the same Error
\* variant, within a call or from one call to a later one.
C8_KindsHaveOwnVariants ==
    \A q \in Surfaced :
        /\ prev.variant = q.variant => prev.kind = q.kind
        /\ \A p \in Surfaced : p.variant = q.variant => p.kind = q.kind

\* C9: when the input cannot be serialized (and the url can be built) the call
\* fails with the serialization error and no request is handed to the transport.
C9_SerializationFailsFast ==
    (pc = "done" /\ urlOk /\ ~inputOk) =>
        result = SerializationError /\ sent = 0

\* C10: no item of a stream is an HTTP-status error; a chunk that decodes as
\* neither variant yields the parse error, and a structured error item carries
\* the status of the response, which is 2xx.
C10_StreamItemsUse2xxStatus ==
    \A i \in 1..Len(items) :
        /\ items[i].kind # "InvalidHTTPStatusCodeError"
        /\ (i <= Len(chunks) /\ chunks[i].ok
              /\ Response(T, chunks[i].data).variant = "Malformed")
               => items[i] = SerializationError
        /\ items[i].kind = "ResponseError" =>
               items[i].status_code = status /\ is_success(status)

\* A stream with a malformed chunk and an error envelope among its chunks.
C10_Witness ==
    /\ pc = "stream"
    /\ status = 299
    /\ \E i \in 1..Len(items) : items[i] = SerializationError
    /\ \E i \in 1..Len(items) :
          items[i].kind = "ResponseError" /\ items[i].status_code = 299
====
